---- MODULE Spec2Model ----
(***************************************************************************)
(* Model of cmdc's file discovery and selection engine                     *)
(* (src/cmdc/file_browser.py, src/cmdc/utils.py).                          *)
(*                                                                         *)
(* Strings are sequences of one-character strings, so that fnmatch,        *)
(* Path.suffix, str.lower, str.split and string comparison are computed    *)
(* character by character.  A path is the sequence of its names relative   *)
(* to FileBrowser.directory; the root directory is the empty path.         *)
(***************************************************************************)
EXTENDS Integers, Sequences, FiniteSets, TLC

\* ------------------------------------------------------------------ bounds

\* Largest depth argument handed to FileBrowser (0 .. MaxDepthArg, or None).
MaxDepthArg == 3
\* Longest selection the interactive chooser is made to return.
MaxSel == 2
\* Most directories whose listing fails / files whose read fails in one run.
MaxFaults == 1
\* Longest text handed to count_tokens on its own.
MaxTextLen == 3
\* Most calls made on one ConfigManager.
MaxCalls == 2
\* Longest selection handed to process_output on its own.
MaxOutSel == 2

\* ----------------------------------------------------------------- strings

\* The characters used, in code-point order (Python compares str by code point).
Ascii ==
  << " ", "*", ",", "-", ".", "/",
     "0", "1", "2", "3", "4", "5", "6", "7", "8", "9", "?",
     "A", "B", "C", "D", "E", "F", "G", "H", "I", "J", "K", "L", "M",
     "N", "O", "P", "Q", "R", "S", "T", "U", "V", "W", "X", "Y", "Z",
     "[", "]", "_",
     "a", "b", "c", "d", "e", "f", "g", "h", "i", "j", "k", "l", "m",
     "n", "o", "p", "q", "r", "s", "t", "u", "v", "w", "x", "y", "z" >>

OrdOf == [c \in { Ascii[i] : i \in 1..Len(Ascii) } |->
            CHOOSE i \in 1..Len(Ascii) : Ascii[i] = c]

\* ord(c), up to the offset of the table.
Ord(c) == OrdOf[c]

IsUpper(c) == Ord(c) >= Ord("A") /\ Ord(c) <= Ord("Z")

LowerChar(c) == IF IsUpper(c) THEN Ascii[Ord(c) + (Ord("a") - Ord("A"))] ELSE c

\* str.lower()
Lower(s) == [i \in 1..Len(s) |-> LowerChar(s[i])]

\* The code points of a string: the key Python compares two strings by.
Ords(s) == [i \in 1..Len(s) |-> Ord(s[i])]

\* Python's order on tuples and strings: lexicographic, a proper prefix first.
RECURSIVE KeyLeq(_, _)
KeyLeq(k1, k2) ==
  IF k1 = <<>> THEN TRUE
  ELSE IF k2 = <<>> THEN FALSE
  ELSE IF Head(k1) < Head(k2) THEN TRUE
  ELSE IF Head(k1) > Head(k2) THEN FALSE
  ELSE KeyLeq(Tail(k1), Tail(k2))

StrLeq(s1, s2) == KeyLeq(Ords(s1), Ords(s2))

\* The elements of a list.
Range(q) == { q[i] : i \in 1..Len(q) }

\* sorted(S) for a set S of strings.
RECURSIVE SortedSeq(_)
SortedSeq(S) ==
  IF S = {} THEN << >>
  ELSE LET least == CHOOSE x \in S : \A y \in S : StrLeq(x, y)
       IN << least >> \o SortedSeq(S \ { least })

\* ------------------------------------------------------------- file system

N_a == << "a", ".", "p", "y" >>
N_B == << "B", ".", "t", "x", "t" >>
N_c == << "c", ".", "p", "y" >>
N_sub == << "s", "u", "b" >>
N_deep == << "d", "e", "e", "p" >>
N_git == << ".", "g", "i", "t" >>

\* Path(directory).absolute().parts of the root directory.
RootParts == << << "/" >>, << "p", "r", "o", "j" >> >>

\* The entries a directory tree of the model may hold:
\*   a.py  sub/  sub/B.txt  sub/deep/  sub/deep/a.py  .git/  .git/c.py
UDirs == { << N_sub >>, << N_sub, N_deep >>, << N_git >> }
UFiles == { << N_a >>, << N_sub, N_B >>, << N_sub, N_deep, N_a >>, << N_git, N_c >> }

Root == << >>

Parent(p) == SubSeq(p, 1, Len(p) - 1)

Name(p) == p[Len(p)]

\* Every directory tree over the entries above: a set closed under Parent.
FileSystems ==
  { S \in SUBSET (UDirs \cup UFiles) :
      \A p \in S : Len(p) > 1 => Parent(p) \in S /\ Parent(p) \in UDirs }

\* A second, flat family of directory trees, whose sibling names differ in
\* case and hold the " [" that separates a path from its token label:
\*   a.py  B.txt  a [1].py  a [2].py  sub/  Tmp/
N_Tmp == << "T", "m", "p" >>
N_a1 == << "a", " ", "[", "1", "]", ".", "p", "y" >>
N_a2 == << "a", " ", "[", "2", "]", ".", "p", "y" >>

FlatDirs == { << N_sub >>, << N_Tmp >> }
FlatFiles == { << N_a >>, << N_B >>, << N_a1 >>, << N_a2 >> }

AllDirs == UDirs \cup FlatDirs
AllFiles == UFiles \cup FlatFiles

\* The flat trees that are not among FileSystems.
FlatFileSystems ==
  { S \in SUBSET (FlatDirs \cup FlatFiles) : S \notin FileSystems }

\* ------------------------------------------------------------------ inputs

\* The ignore pattern lists of the model: none; a directory name; two globs;
\* a glob that matches the root directory's own name.
IgnoreChoices ==
  { << >>,
    << N_git >>,
    << << "*", ".", "t", "x", "t" >>, << "d", "?", "?", "p" >> >>,
    << << "p", "r", "*" >> >> }

FilterChoices ==
  { << >>, << << ".", "p", "y" >> >>, << << ".", "t", "x", "t" >> >> }

\* (recursive, depth) as FileBrowser can be constructed.
ModeChoices ==
  { << TRUE, << >> >>, << FALSE, << >> >> }
  \cup { << FALSE, << n >> >> : n \in 0..MaxDepthArg }

\* ------------------------------------------------------------------- state

VARIABLES
  present,          \* the entries that exist under the root directory
  listErr,          \* per directory: "ok", or the error listing it raises
  readErr,          \* the files whose read_text / count_tokens raises
  recursive,        \* FileBrowser.recursive
  depth,            \* FileBrowser.depth: << >> is None, << n >> is n
  filters,          \* FileBrowser.filters
  ignore_patterns,  \* FileBrowser.ignore_patterns
  non_interactive,  \* the argument of scan_and_select_files
  pc,               \* where scan_and_select_files stands
  files,            \* files = self.get_files()
  idx,              \* the token counting loop: files[idx] is next
  token_counts,     \* relative path -> token count
  tree,             \* tree = self.build_tree()
  selected_files,   \* the selection returned
  total_tokens,     \* the total returned
  exit_code,        \* << >>, or << c >> after typer.Exit(code=c)
  walked,           \* the set of paths walk_valid_paths yielded to get_files
  listed,           \* the directories that walk listed
  offered,          \* the choices handed to the chooser
  log,              \* the steps taken so far, in order
  encoding_model    \* FileBrowser.encoding_model

\* count_tokens called on its own.
VARIABLES
  text,             \* the text argument
  encoding_name,    \* the encoding_name argument
  token_count       \* << >>, or << n >> once count_tokens returned n

tokVars == << text, encoding_name, token_count >>

\* A second traversal by the same FileBrowser.
VARIABLES
  files2,           \* what the second get_files() returned
  tree2             \* what the second build_tree() returned

twiceVars == << files2, tree2 >>

\* ConfigManager and what it reads and writes.
VARIABLES
  config_file,      \* config.toml: whether it exists, parses, and its tables
  environ,          \* the CMDC_* environment variables
  config,           \* what load_config() returned last
  new_patterns,     \* the arguments of the add_ignore_patterns calls so far
  cm_calls          \* the calls made so far

cfgVars == << config_file, environ, config, new_patterns, cm_calls >>

\* OutputHandler.process_output.
VARIABLES
  output_mode,      \* "console", or the name of the file to write
  copy_to_clipboard,\* OutputHandler.copy_to_clipboard
  out_idx,          \* position of the loop in selected_files
  output_text,      \* the local output_text, as the sequence of its pieces
  console_out,      \* what was printed, as the sequence of its pieces
  clipboard,        \* what pyperclip.copy received, or << >>
  output_file       \* the text of the output file, or << >> when not written

outVars ==
  << output_mode, copy_to_clipboard, out_idx, output_text, console_out,
     clipboard, output_file >>

\* The command line.
VARIABLES
  args              \* the arguments main was called with

\* The state of the operations that the FileBrowser runs do not touch.
otherVars == << encoding_model, tokVars, twiceVars, cfgVars, args, outVars >>

vars ==
  << present, listErr, readErr, recursive, depth, filters, ignore_patterns,
     non_interactive, pc, files, idx, token_counts, tree, selected_files,
     total_tokens, exit_code, walked, listed, offered, log, otherVars >>

\* ------------------------------------------------------------ ConfigManager

\* get_default_ignore_patterns(): the list as written, "__pycache__" twice.
get_default_ignore_patterns ==
  << << ".", "g", "i", "t" >>,
     << "n", "o", "d", "e", "_", "m", "o", "d", "u", "l", "e", "s" >>,
     << "_", "_", "p", "y", "c", "a", "c", "h", "e", "_", "_" >>,
     << "*", ".", "p", "y", "c" >>,
     << "v", "e", "n", "v" >>,
     << ".", "v", "e", "n", "v" >>,
     << "e", "n", "v" >>,
     << ".", "e", "n", "v" >>,
     << ".", "i", "d", "e", "a" >>,
     << ".", "v", "s", "c", "o", "d", "e" >>,
     << ".", "p", "y", "t", "e", "s", "t", "_", "c", "a", "c", "h", "e" >>,
     << "_", "_", "p", "y", "c", "a", "c", "h", "e", "_", "_" >>,
     << ".", "c", "o", "v", "e", "r", "a", "g", "e" >>,
     << "h", "t", "m", "l", "c", "o", "v" >>,
     << "b", "u", "i", "l", "d" >>,
     << "d", "i", "s", "t" >>,
     << "*", ".", "e", "g", "g", "-", "i", "n", "f", "o" >>,
     << ".", "t", "o", "x" >>,
     << ".", "m", "y", "p", "y", "_", "c", "a", "c", "h", "e" >>,
     << ".", "r", "u", "f", "f", "_", "c", "a", "c", "h", "e" >> >>

\* A dict is a function from its keys; << >> is the empty dict.
EmptyDict == << >>

\* d.get(k, default)
Get(d, k, default) == IF k \in DOMAIN d THEN d[k] ELSE default

\* d.update(o): the keys of o overwrite those of d, the others stay.
Update(d, o) ==
  [k \in DOMAIN d \cup DOMAIN o |-> IF k \in DOMAIN o THEN o[k] ELSE d[k]]

\* get_default_config()
get_default_config ==
  [ filters |-> << >>,
    ignore_patterns |-> get_default_ignore_patterns,
    recursive |-> FALSE,
    copy_to_clipboard |-> TRUE,
    print_to_console |-> FALSE,
    depth |-> 1,
    tiktoken_model |-> "o200k_base" ]

\* s.split(","): the pieces between the commas, empty pieces included.
RECURSIVE SplitComma(_)
SplitComma(s) ==
  LET commas == { i \in 1..Len(s) : s[i] = "," }
  IN IF commas = {} THEN << s >>
     ELSE LET first == CHOOSE i \in commas : \A j \in commas : i <= j
          IN << SubSeq(s, 1, first - 1) >> \o SplitComma(SubSeq(s, first + 1, Len(s)))

S_true == << "t", "r", "u", "e" >>

\* The environment: CMDC_* variable -> value; << >> when unset or empty
\* (os.getenv then gives None or "", both false).
EnvNames == { "CMDC_FILTERS", "CMDC_IGNORE", "CMDC_RECURSIVE", "CMDC_COPY_CLIPBOARD" }

NoEnv == [n \in EnvNames |-> << >>]

\* get_file_config(): {} when there is no file or it cannot be parsed, else
\* the file's "cmdc" table ({} when it has none).
get_file_config(file) ==
  IF ~file.exists THEN EmptyDict
  ELSE IF ~file.valid THEN EmptyDict
  ELSE Get(file.doc, "cmdc", EmptyDict)

\* get_env_config()
get_env_config(env) ==
  (IF env["CMDC_FILTERS"] # << >>
     THEN "filters" :> SplitComma(env["CMDC_FILTERS"]) ELSE EmptyDict)
  @@ (IF env["CMDC_IGNORE"] # << >>
     THEN "ignore_patterns" :> SplitComma(env["CMDC_IGNORE"]) ELSE EmptyDict)
  @@ (IF env["CMDC_RECURSIVE"] # << >>
     THEN "recursive" :> (Lower(env["CMDC_RECURSIVE"]) = S_true) ELSE EmptyDict)
  @@ (IF env["CMDC_COPY_CLIPBOARD"] # << >>
     THEN "copy_to_clipboard" :> (Lower(env["CMDC_COPY_CLIPBOARD"]) = S_true)
     ELSE EmptyDict)

\* (mutant) the envment is applied before the file.
load_config_env_first(file, env) ==
  Update(Update(get_default_config, get_env_config(env)), get_file_config(file))

\* load_config(): defaults, updated with the file, updated with the envment.
load_config(file, env) ==
  Update(Update(get_default_config, get_file_config(file)), get_env_config(env))

\* The configuration files of the model.
S_log == << "*", ".", "l", "o", "g" >>
S_txt == << "t", "x", "t" >>
S_dot_txt == << ".", "t", "x", "t" >>
S_py == << "p", "y" >>
S_dot_py == << ".", "p", "y" >>

NoFile == [exists |-> FALSE, valid |-> FALSE, doc |-> EmptyDict]

UnparsableFile == [exists |-> TRUE, valid |-> FALSE, doc |-> EmptyDict]

FileOf(doc) == [exists |-> TRUE, valid |-> TRUE, doc |-> doc]

\* depth = 0
File_depth0 == FileOf([cmdc |-> [depth |-> 0]])

\* recursive = true, depth = 2
File_recursive == FileOf([cmdc |-> [recursive |-> TRUE, depth |-> 2]])

\* filters without the leading dot, an unsorted ignore list with a repeat
File_lists ==
  FileOf([cmdc |-> [filters |-> << S_txt >>,
                    ignore_patterns |-> << S_log, N_git, S_log >>,
                    copy_to_clipboard |-> FALSE]])

\* a file with another table and no "cmdc" table
File_no_section == FileOf([other |-> [depth |-> 3]])

\* a "cmdc" table without ignore_patterns, next to another table
File_no_list == FileOf([cmdc |-> [depth |-> 2], other |-> [depth |-> 3]])

ConfigFiles ==
  { NoFile, UnparsableFile, File_depth0, File_recursive, File_lists,
    File_no_section, File_no_list }

\* The environments of the model.
Environments ==
  { NoEnv,
    [NoEnv EXCEPT !["CMDC_FILTERS"] = S_py \o << "," >> \o S_dot_txt],
    [NoEnv EXCEPT !["CMDC_RECURSIVE"] = << "T", "r", "u", "e" >>],
    [NoEnv EXCEPT !["CMDC_RECURSIVE"] = << "y", "e", "s" >>,
                  !["CMDC_IGNORE"] = N_sub,
                  !["CMDC_COPY_CLIPBOARD"] = << "n", "o" >>] }

\* (mutant) the defaults are forgotten when the file has no list.
current_patterns_no_defaults(doc) ==
  Range(Get(Get(doc, "cmdc", EmptyDict), "ignore_patterns", << >>))

\* set(config.get("cmdc", {}).get("ignore_patterns", defaults))
current_patterns(doc) ==
  Range(Get(Get(doc, "cmdc", EmptyDict), "ignore_patterns", get_default_ignore_patterns))

\* "for pattern in new_patterns": each pattern not yet in the set is added.
RECURSIVE add_each(_, _)
add_each(current, patterns) ==
  IF patterns = << >> THEN current
  ELSE add_each(IF Head(patterns) \in current THEN current
                ELSE current \cup { Head(patterns) },
                Tail(patterns))

\* The document add_ignore_patterns saves, given the one it loaded.
add_ignore_patterns(doc, patterns) ==
  LET with_section == IF "cmdc" \in DOMAIN doc THEN doc ELSE ("cmdc" :> EmptyDict) @@ doc
      saved_list == SortedSeq(add_each(current_patterns(doc), patterns))
  IN [with_section EXCEPT
        !["cmdc"] = Update(with_section["cmdc"], "ignore_patterns" :> saved_list)]

\* The pattern lists add_ignore_patterns is called with.
PatternArgs == { << >>, << S_log >>, << N_sub, N_git >>, << S_log, S_log >> }

\* int(s) for an optional sign followed by digits; << >> stands for ValueError.
DigitChars == << "0", "1", "2", "3", "4", "5", "6", "7", "8", "9" >>

IsDigit(c) == c \in Range(DigitChars)

DigitValue(c) == (CHOOSE i \in 1..Len(DigitChars) : DigitChars[i] = c) - 1

RECURSIVE DigitsValue(_)
DigitsValue(s) ==
  IF s = << >> THEN 0
  ELSE 10 * DigitsValue(SubSeq(s, 1, Len(s) - 1)) + DigitValue(s[Len(s)])

ParseInt(s) ==
  LET signed == s # << >> /\ s[1] \in { "-", "+" }
      digits == IF signed THEN Tail(s) ELSE s
  IN IF digits = << >> \/ \E i \in 1..Len(digits) : ~IsDigit(digits[i]) THEN << >>
     ELSE << IF signed /\ s[1] = "-" THEN 0 - DigitsValue(digits) ELSE DigitsValue(digits) >>

\* "if not ext.startswith('.'): ext = f'.{ext}'"
with_leading_dot(ext) == IF ext[1] = "." THEN ext ELSE << "." >> \o ext

NonEmpty(s) == s # << >>

\* interactive_config(): the dict built from the user's answers.  custom is
\* what was typed at the pattern prompts (an empty one is not added), exts
\* what was typed at the extension prompt before the empty line.
interactive_config(a) ==
  LET parsed == ParseInt(a.depth_str)
      default_depth == IF parsed = << >> THEN 1
                       ELSE IF parsed[1] < 1 THEN 1 ELSE parsed[1]
      chosen == IF a.use_default_ignores THEN a.checked ELSE << >>
  IN [ recursive |-> a.recursive,
       depth |-> default_depth,
       copy_to_clipboard |-> a.copy_to_clipboard,
       print_to_console |-> a.print_to_console,
       ignore_patterns |-> chosen \o SelectSeq(a.custom, NonEmpty),
       filters |-> IF a.use_filters
                     THEN [i \in 1..Len(a.exts) |-> with_leading_dot(a.exts[i])]
                     ELSE << >>,
       tiktoken_model |-> a.encoding_model ]

\* The answers of the model: all defaults accepted; a depth of 0, own
\* patterns and extensions typed without the dot; a depth that is no number;
\* a negative depth with recursion.
Answers_defaults ==
  [ recursive |-> FALSE, depth_str |-> << "1" >>, copy_to_clipboard |-> TRUE,
    print_to_console |-> FALSE, use_default_ignores |-> TRUE,
    checked |-> get_default_ignore_patterns, custom |-> << >>,
    use_filters |-> FALSE, exts |-> << >>, encoding_model |-> "o200k_base" ]

Answers_depth0 ==
  [ Answers_defaults EXCEPT !.depth_str = << "0" >>, !.use_default_ignores = FALSE,
      !.custom = << S_log, << >>, N_git >>, !.use_filters = TRUE,
      !.exts = << S_py, S_dot_txt >> ]

Answers_not_a_number ==
  [ Answers_defaults EXCEPT !.depth_str = << "a", "b", "c" >>,
      !.checked = << N_git >>, !.encoding_model = "cl100k_base" ]

Answers_negative ==
  [ Answers_defaults EXCEPT !.depth_str = << "-", "1" >>, !.recursive = TRUE ]

Answers_deep ==
  [ Answers_defaults EXCEPT !.depth_str = << "1", "2" >>, !.print_to_console = TRUE ]

AnswerChoices ==
  { Answers_defaults, Answers_depth0, Answers_not_a_number, Answers_negative,
    Answers_deep }

\* --------------------------------------------------------------- cli.main

\* An optional argument: << >> is None, << v >> is the value v.
None == << >>

Some(v) == << v >>

\* main called without any option.
NoArgs ==
  [ config |-> FALSE, config_show |-> FALSE, force |-> FALSE,
    filters |-> None, recursive |-> None, ignore |-> None, depth |-> None,
    encoding_model |-> Some("o200k_base") ]

\* The arguments of main that decide what is browsed.
CliRecursive == { None, Some(TRUE), Some(FALSE) }

CliDepth == { None, Some(0), Some(1), Some(2) }

CliFilters == { None, Some(<< S_py >>), Some(<< S_dot_py >>) }

CliIgnore == { None, Some(<< << "*", ".", "t", "x", "t" >> >>) }

\* The configuration files and environments main is run with; one of the
\* files is what --config wrote for a depth answer of 0.
CliConfigFiles ==
  { NoFile, File_depth0, File_recursive, File_lists,
    FileOf([cmdc |-> interactive_config(Answers_depth0)]) }

CliEnvironments ==
  { NoEnv,
    [NoEnv EXCEPT !["CMDC_FILTERS"] = S_py \o << "," >> \o S_dot_txt],
    [NoEnv EXCEPT !["CMDC_RECURSIVE"] = << "T", "r", "u", "e" >>] }

\* --encoding-model on the command line: absent, or a model name.
CliEncodingModel == { None, Some("cl100k_base") }

\* What main receives as encoding_model: the option's value, or the default
\* of typer.Option("o200k_base", "--encoding-model") when it is absent.
encoding_model_argument(opt) == IF opt = None THEN Some("o200k_base") ELSE opt

\* The file --config wrote when cl100k_base was chosen as the model.
File_cl100k == FileOf([cmdc |-> interactive_config(Answers_not_a_number)])

\* filters = config.get("filters", []) unless --filters is given
resolve_filters(a, cfg) ==
  IF a.filters = None THEN Get(cfg, "filters", << >>) ELSE a.filters[1]

\* ignore = config.get("ignore_patterns", []) [+ list(ignore)]
resolve_ignore(a, cfg) ==
  IF a.ignore = None THEN Get(cfg, "ignore_patterns", << >>)
  ELSE Get(cfg, "ignore_patterns", << >>) \o a.ignore[1]

\* (mutant) an explicit --depth is looked at before --recursive.
resolve_mode_depth_first(a, cfg) ==
  IF a.depth # None THEN << FALSE, a.depth >>
  ELSE IF a.recursive # None
    THEN << a.recursive[1],
            IF a.recursive[1] THEN None ELSE Some(Get(cfg, "depth", 1)) >>
  ELSE << Get(cfg, "recursive", FALSE),
          IF Get(cfg, "recursive", FALSE) THEN None ELSE Some(Get(cfg, "depth", 1)) >>

\* "if recursive is not None: ... elif depth is not None: ... else: ...":
\* the (recursive, depth) handed to FileBrowser.
resolve_mode(a, cfg) ==
  IF a.recursive # None
    THEN << a.recursive[1],
            IF a.recursive[1] THEN None ELSE Some(Get(cfg, "depth", 1)) >>
  ELSE IF a.depth # None THEN << FALSE, a.depth >>
  ELSE << Get(cfg, "recursive", FALSE),
          IF Get(cfg, "recursive", FALSE) THEN None ELSE Some(Get(cfg, "depth", 1)) >>

\* Every ignore list main can hand to FileBrowser.
CliIgnoreLists ==
  { resolve_ignore([ignore |-> i], load_config(f, e)) :
      i \in CliIgnore, f \in CliConfigFiles, e \in CliEnvironments }

\* The ignore lists a FileBrowser of the model is constructed with.
IgnoreLists == IgnoreChoices \cup CliIgnoreLists

\* ------------------------------------------------------------- PathMatcher

\* fnmatch.fnmatch(name, pat) on POSIX (normcase is the identity): "*" matches
\* any run of characters, "?" any one character, any other character itself.
\* (Bracket classes are not among the patterns of the model.)
RECURSIVE fnmatch(_, _)
fnmatch(name, pat) ==
  IF pat = <<>> THEN name = <<>>
  ELSE IF Head(pat) = "*"
    THEN fnmatch(name, Tail(pat)) \/ (name # <<>> /\ fnmatch(Tail(name), pat))
  ELSE IF Head(pat) = "?"
    THEN name # <<>> /\ fnmatch(Tail(name), Tail(pat))
  ELSE name # <<>> /\ Head(name) = Head(pat) /\ fnmatch(Tail(name), Tail(pat))

\* path.absolute().parts
AbsParts(path) == RootParts \o path

\* any(fnmatch.fnmatch(part, pattern) for part in ... for pattern in patterns)
any_part_matches(path, patterns) ==
  LET parts == AbsParts(path)
  IN \E i \in 1..Len(parts) : \E j \in 1..Len(patterns) :
       fnmatch(parts[i], patterns[j])

\* (mutant) only the entry's own name is matched, not its ancestors'.
should_ignore_name_only(path) ==
  path # Root /\ \E j \in 1..Len(ignore_patterns) : fnmatch(Name(path), ignore_patterns[j])

\* any_part_matches, tabulated once for the pattern lists and paths of the model.
should_ignore_table ==
  [patterns \in IgnoreLists |->
    [path \in { Root } \cup AllDirs \cup AllFiles |-> any_part_matches(path, patterns)]]

should_ignore(path) == should_ignore_table[ignore_patterns][path]

\* str.rfind("."), 1-based; 0 when there is none.
RFindDot(s) ==
  IF \E i \in 1..Len(s) : s[i] = "."
    THEN CHOOSE i \in 1..Len(s) : s[i] = "." /\ \A j \in (i+1)..Len(s) : s[j] # "."
    ELSE 0

\* PurePath.suffix: the last dot and what follows it, unless the name starts
\* or ends with that dot.
suffix(path) ==
  LET name == Name(path)
      i == RFindDot(name)
  IN IF 1 < i /\ i < Len(name) THEN SubSeq(name, i, Len(name)) ELSE <<>>

\* (mutant) an empty filter list accepts nothing.
file_matches_filter_no_default(file) ==
  \E i \in 1..Len(filters) : suffix(file) = filters[i]

file_matches_filter(file) ==
  IF filters = <<>> THEN TRUE
  ELSE \E i \in 1..Len(filters) : suffix(file) = filters[i]

\* -------------------------------------------------------- Traversal Engine

is_dir(p) == p = Root \/ (p \in present /\ p \in AllDirs)

is_file(p) == p \in present /\ p \in AllFiles

ChildrenIn(S, d) == { p \in S : Len(p) = Len(d) + 1 /\ Parent(p) = d }

Children(d) == ChildrenIn(present, d)

DirsPresent == { Root } \cup (present \cap UDirs)

\* All orders in which a set can be enumerated.
RECURSIVE Perms(_)
Perms(S) ==
  IF S = {} THEN { <<>> }
  ELSE UNION { { <<x>> \o q : q \in Perms(S \ {x}) } : x \in S }

\* All the ways the file system can enumerate its directories: for each
\* directory, one order of its entries (os.scandir and Path.iterdir promise none).
RECURSIVE OrdersOver(_, _)
OrdersOver(S, D) ==
  IF D = {} THEN { <<>> }
  ELSE LET d == CHOOSE x \in D : TRUE
       IN { (d :> q) @@ o : q \in Perms(ChildrenIn(S, d)), o \in OrdersOver(S, D \ {d}) }

OrdersOf ==
  [S \in FileSystems \cup FlatFileSystems |->
     OrdersOver(S, { Root } \cup (S \cap AllDirs))]

Orders == OrdersOf[present]

\* [x for x in s if not should_ignore(x)]
NotIgnored(s) == LET Keep(x) == ~should_ignore(x) IN SelectSeq(s, Keep)

OnlyDirs(s) == SelectSeq(s, is_dir)

OnlyNonDirs(s) == LET NonDir(x) == ~is_dir(x) IN SelectSeq(s, NonDir)

\* The result of a walk: what it yielded, the directories it listed, and
\* whether an exception left it.
WalkResult(out, lst, err) == [out |-> out, listed |-> lst, err |-> err]

Then(r1, r2) ==
  IF r1.err THEN r1
  ELSE WalkResult(r1.out \o r2.out, r1.listed \cup r2.listed, r2.err)

Nothing == WalkResult(<<>>, {}, FALSE)

\* The recursive branch: os.walk(self.directory), top-down, onerror=None, so
\* a directory whose scandir raises any OSError yields nothing; the loop body
\* prunes dirs in place unless it skips the directory with "continue".
RECURSIVE recursive_walk(_, _), recursive_walk_dirs(_, _)
recursive_walk(top, ord) ==
  IF listErr[top] # "ok" THEN WalkResult(<<>>, {top}, FALSE)
  ELSE LET dirs == OnlyDirs(ord[top])
           filenames == OnlyNonDirs(ord[top])
       IN IF should_ignore(top)
            THEN Then(WalkResult(<<>>, {top}, FALSE), recursive_walk_dirs(dirs, ord))
            ELSE Then(WalkResult(<<top>> \o NotIgnored(filenames), {top}, FALSE),
                      recursive_walk_dirs(NotIgnored(dirs), ord))

recursive_walk_dirs(dirs, ord) ==
  IF dirs = <<>> THEN Nothing
  ELSE Then(recursive_walk(Head(dirs), ord), recursive_walk_dirs(Tail(dirs), ord))

\* limited_walk(current, current_level): "except PermissionError: pass" ends
\* the frame that raised it; any other error leaves the generator.
RECURSIVE limited_walk(_, _, _), limited_walk_children(_, _, _)
\* (mutant) descends while current_level <= depth: one level too deep.
limited_walk_one_deeper(current, current_level, ord) ==
  LET own == IF current_level > 0 /\ ~should_ignore(current)
               THEN <<current>> ELSE <<>>
  IN IF is_dir(current) /\ current_level <= depth[1]
       THEN CASE listErr[current] = "perm" -> WalkResult(own, {current}, FALSE)
              [] listErr[current] = "os" -> WalkResult(own, {current}, TRUE)
              [] OTHER ->
                   Then(WalkResult(own, {current}, FALSE),
                        limited_walk_children(ord[current], current_level, ord))
       ELSE WalkResult(own, {}, FALSE)

\* (mutant) descends while current_level < depth - 1: one level short.
limited_walk_one_short(current, current_level, ord) ==
  LET own == IF current_level > 0 /\ ~should_ignore(current)
               THEN <<current>> ELSE <<>>
  IN IF is_dir(current) /\ current_level < depth[1] - 1
       THEN CASE listErr[current] = "perm" -> WalkResult(own, {current}, FALSE)
              [] listErr[current] = "os" -> WalkResult(own, {current}, TRUE)
              [] OTHER ->
                   Then(WalkResult(own, {current}, FALSE),
                        limited_walk_children(ord[current], current_level, ord))
       ELSE WalkResult(own, {}, FALSE)

limited_walk(current, current_level, ord) ==
  LET own == IF current_level > 0 /\ ~should_ignore(current)
               THEN <<current>> ELSE <<>>
  IN IF is_dir(current) /\ current_level < depth[1]
       THEN CASE listErr[current] = "perm" -> WalkResult(own, {current}, FALSE)
              [] listErr[current] = "os" -> WalkResult(own, {current}, TRUE)
              [] OTHER ->
                   Then(WalkResult(own, {current}, FALSE),
                        limited_walk_children(ord[current], current_level, ord))
       ELSE WalkResult(own, {}, FALSE)

limited_walk_children(children, current_level, ord) ==
  IF children = <<>> THEN Nothing
  ELSE IF should_ignore(Head(children))
    THEN limited_walk_children(Tail(children), current_level, ord)
  ELSE Then(limited_walk(Head(children), current_level + 1, ord),
            limited_walk_children(Tail(children), current_level, ord))

\* (mutant) only the files among the immediate children are yielded.
flat_walk_files_only(ord) ==
  CASE listErr[Root] = "perm" -> WalkResult(<<>>, {Root}, FALSE)
    [] listErr[Root] = "os" -> WalkResult(<<>>, {Root}, TRUE)
    [] OTHER -> WalkResult(OnlyNonDirs(NotIgnored(ord[Root])), {Root}, FALSE)

\* Non-recursive mode: the immediate children of the root.
flat_walk(ord) ==
  CASE listErr[Root] = "perm" -> WalkResult(<<>>, {Root}, FALSE)
    [] listErr[Root] = "os" -> WalkResult(<<>>, {Root}, TRUE)
    [] OTHER -> WalkResult(NotIgnored(ord[Root]), {Root}, FALSE)

walk_valid_paths(ord) ==
  IF recursive THEN recursive_walk(Root, ord)
  ELSE IF depth # <<>> THEN limited_walk(Root, 0, ord)
  ELSE flat_walk(ord)

\* sorted(seq, key=...): stable, on pairs [k |-> key, v |-> value] whose keys
\* are tuples of integers.
RECURSIVE InsertSorted(_, _)
InsertSorted(x, s) ==
  IF s = <<>> THEN <<x>>
  ELSE IF KeyLeq(Head(s).k, x.k) THEN <<Head(s)>> \o InsertSorted(x, Tail(s))
  ELSE <<x>> \o s

RECURSIVE SortPairs(_)
SortPairs(s) ==
  IF s = <<>> THEN <<>>
  ELSE InsertSorted(s[Len(s)], SortPairs(SubSeq(s, 1, Len(s) - 1)))

Values(s) == [i \in 1..Len(s) |-> s[i].v]

\* str(f.relative_to(self.directory)): the names joined by "/".
RECURSIVE RelStr(_)
RelStr(p) ==
  IF Len(p) = 1 THEN p[1]
  ELSE RelStr(SubSeq(p, 1, Len(p) - 1)) \o << "/" >> \o p[Len(p)]

\* (mutant) key=lambda p: str(p.relative_to(directory)).lower()
NameKey_relative_path(p) == Ords(Lower(RelStr(p)))

\* (mutant) key=lambda p: p.name
NameKey_case_sensitive(p) == Ords(Name(p))

\* key=lambda p: p.name.lower()
NameKey(p) == Ords(Lower(Name(p)))

\* get_files on what the walk yielded.
get_files(out) ==
  LET Cand(p) == is_file(p) /\ file_matches_filter(p)
      cands == SelectSeq(out, Cand)
  IN Values(SortPairs([i \in 1..Len(cands) |-> [k |-> NameKey(cands[i]), v |-> cands[i]]]))

\* --------------------------------------------------------- Token Annotator

\* What f.read_text(encoding="utf-8") returns for the files of the model.
Content(p) ==
  CASE p = << N_a >> -> << "x" >>
    [] p = << N_sub, N_B >> -> << "x", " ", "y" >>
    [] p = << N_sub, N_deep, N_a >> -> << "x" >>
    [] p = << N_a1 >> -> << "x", " ", "y" >>
    [] OTHER -> << >>

\* The encodings the tokenizer knows, and the one count_tokens falls back to.
KnownEncodings == { "o200k_base", "cl100k_base" }

DefaultEncoding == "o200k_base"

\* len(encoding.encode(s)): one token per character under o200k_base, one per
\* two characters under cl100k_base; no token for the empty text.
EncodedLen(s, encoding) ==
  IF encoding = "o200k_base" THEN Len(s) ELSE (Len(s) + 1) \div 2

\* (mutant) an unrecognized name is not replaced by the default: no count.
count_tokens_no_fallback(s, name) ==
  IF name \in KnownEncodings THEN EncodedLen(s, name) ELSE 0

\* count_tokens(text, encoding_name): an unrecognized name falls back to the
\* default encoding.
count_tokens(s, name) ==
  EncodedLen(s, IF name \in KnownEncodings THEN name ELSE DefaultEncoding)

\* The keys of token_counts in insertion order: the loop inserts the relative
\* path of files[1], files[2], ... and no two files share a relative path.
token_keys == [i \in 1..(idx - 1) |-> RelStr(files[i])]

RECURSIVE SumSeq(_)
SumSeq(s) == IF s = <<>> THEN 0 ELSE Head(s) + SumSeq(Tail(s))

\* (mutant) sum(set(token_counts.values()))
sum_values_distinct ==
  LET vals == { token_counts[k] : k \in DOMAIN token_counts }
      RECURSIVE SumSet(_)
      SumSet(S) == IF S = {} THEN 0
                   ELSE LET x == CHOOSE x \in S : TRUE IN x + SumSet(S \ {x})
  IN SumSet(vals)

\* sum(token_counts.values())
sum_values == SumSeq([i \in 1..Len(token_keys) |-> token_counts[token_keys[i]]])

\* token_counts.get(item, 0)
token_get(item) == IF item \in DOMAIN token_counts THEN token_counts[item] ELSE 0

\* --------------------------------------------------------------- Tree Builder

\* paths_by_parent[d]: the yielded paths whose parent is d, in yield order;
\* d is a key of the mapping iff this is not empty.
paths_by_parent(valid_paths, d) ==
  LET Under(p) == p # Root /\ Parent(p) = d IN SelectSeq(valid_paths, Under)

InSeq(x, s) == \E i \in 1..Len(s) : s[i] = x

\* (mutant) key=lambda p: not p.is_dir()
TreeKey_kind_only(p) == << IF is_dir(p) THEN 0 ELSE 1 >>

\* (mutant) key=lambda p: (not p.is_dir(), p.name)
TreeKey_case_sensitive(p) == << IF is_dir(p) THEN 0 ELSE 1 >> \o Ords(Name(p))

\* key=lambda p: (not p.is_dir(), p.name.lower())
TreeKey(p) == << IF is_dir(p) THEN 0 ELSE 1 >> \o NameKey(p)

Node(style, name, children) == [style |-> style, name |-> name, children |-> children]

RECURSIVE add_to_tree(_, _), add_paths(_, _)
add_to_tree(current_dir, valid_paths) ==
  LET mine == paths_by_parent(valid_paths, current_dir)
  IN add_paths(
       Values(SortPairs([i \in 1..Len(mine) |-> [k |-> TreeKey(mine[i]), v |-> mine[i]]])),
       valid_paths)

add_paths(paths, valid_paths) ==
  IF paths = <<>> THEN <<>>
  ELSE LET path == Head(paths)
           rest == add_paths(Tail(paths), valid_paths)
       IN IF is_dir(path)
            THEN IF paths_by_parent(valid_paths, path) # <<>> \/ InSeq(path, valid_paths)
                   THEN << Node("dir", Name(path), add_to_tree(path, valid_paths)) >> \o rest
                   ELSE rest
          ELSE IF file_matches_filter(path)
            THEN << Node("file", Name(path), <<>>) >> \o rest
          ELSE rest

\* directory.name or str(directory)
build_directory_tree(valid_paths) ==
  Node("dir", RootParts[Len(RootParts)], add_to_tree(Root, valid_paths))

\* ------------------------------------------------------------------ Selector

\* key=lambda x: x.lower()
choices ==
  Values(SortPairs([i \in 1..Len(token_keys) |->
    [k |-> Ords(Lower(token_keys[i])), v |-> token_keys[i]]]))

\* display_str.split(" [")[0]: what stands before the first " [".
extract_relative(display_str) ==
  LET At(i) == i < Len(display_str) /\ display_str[i] = " " /\ display_str[i + 1] = "["
  IN IF \E i \in 1..Len(display_str) : At(i)
       THEN LET first == CHOOSE i \in 1..Len(display_str) :
                           At(i) /\ \A j \in 1..(i - 1) : ~At(j)
            IN SubSeq(display_str, 1, first - 1)
       ELSE display_str

\* What the chooser can hand back before its filter: the values of any of the
\* choices, each at most once, in any order, at most MaxSel of them.
ChooserResults(cs) ==
  { q \in UNION { [1..n -> 1..Len(cs)] : n \in 0..MaxSel } :
      \A i, j \in 1..Len(q) : i # j => q[i] # q[j] }

\* ---------------------------------------------------------------- the runs

\* count_tokens is not being called on its own.
TokIdle == text = << >> /\ encoding_name = DefaultEncoding /\ token_count = << >>

\* No second traversal has been made.
TwiceIdle == files2 = << >> /\ tree2 = << >>

\* "console".
M_console == << "c", "o", "n", "s", "o", "l", "e" >>

\* process_output is not running.
OutIdle ==
  /\ output_mode = M_console /\ copy_to_clipboard = FALSE /\ out_idx = 1
  /\ output_text = << >> /\ console_out = << >> /\ clipboard = << >>
  /\ output_file = << >>

\* main has not been called.
CliIdle == args = NoArgs

\* No ConfigManager is in use.
CfgIdle ==
  /\ config_file = NoFile /\ environ = NoEnv /\ config = EmptyDict
  /\ new_patterns = << >> /\ cm_calls = 0

Init ==
  /\ present \in FileSystems
  /\ listErr \in [{ Root } \cup (present \cap UDirs) -> { "ok", "perm", "os" }]
  /\ readErr \in SUBSET (present \cap UFiles)
  /\ Cardinality({ d \in DOMAIN listErr : listErr[d] # "ok" }) + Cardinality(readErr)
       <= (IF present = UDirs \cup UFiles THEN MaxFaults ELSE 0)
  /\ \E m \in ModeChoices : recursive = m[1] /\ depth = m[2]
  /\ filters \in FilterChoices
  /\ ignore_patterns \in IgnoreChoices
  /\ non_interactive \in BOOLEAN
  /\ pc = "Scanning"
  /\ files = << >>
  /\ idx = 1
  /\ token_counts = << >>
  /\ tree = << >>
  /\ selected_files = << >>
  /\ total_tokens = 0
  /\ exit_code = << >>
  /\ walked = {}
  /\ listed = {}
  /\ offered = << >>
  /\ log = << >>
  /\ encoding_model = DefaultEncoding
  /\ TokIdle
  /\ TwiceIdle
  /\ CfgIdle
  /\ CliIdle
  /\ OutIdle

\* "if not files: ... raise typer.Exit(code=1)"; an error that leaves
\* walk_valid_paths leaves scan_and_select_files too.
\* (mutant) the "if not files" check is missing.
after_scan_no_check(err, found) == IF err THEN "Raised" ELSE "Annotating"

after_scan(err, found) ==
  IF err THEN "Raised"
  ELSE IF found = << >> THEN "NoFilesFound"
  ELSE "Annotating"

\* files = self.get_files(), and the check that follows it.
Scan ==
  /\ pc = "Scanning"
  /\ \E ord \in Orders :
       LET w == walk_valid_paths(ord)
           found == get_files(w.out)
       IN /\ walked' = { w.out[i] : i \in 1..Len(w.out) }
          /\ listed' = w.listed
          /\ files' = IF w.err THEN << >> ELSE found
          /\ pc' = after_scan(w.err, found)
          /\ exit_code' = IF after_scan(w.err, found) = "NoFilesFound"
                            THEN << 1 >> ELSE << >>
  /\ log' = Append(log, "scan")
  /\ UNCHANGED << present, listErr, readErr, recursive, depth, filters,
                  ignore_patterns, non_interactive, idx, token_counts, tree,
                  selected_files, total_tokens, offered, otherVars >>

\* (mutant) the except branch records the token_count left by the previous file.
recorded_count_stale(f) ==
  IF f \in readErr
    THEN IF idx > 1 THEN token_counts[RelStr(files[idx - 1])] ELSE 0
    ELSE count_tokens(Content(f), encoding_model)

\* try: token_count = count_tokens(f.read_text(...)) except Exception: 0
recorded_count(f) == IF f \in readErr THEN 0 ELSE count_tokens(Content(f), encoding_model)

\* (mutant) the loop is left after its first turn.
after_count_first_only(i, n) == "Presenting"

\* "for f in files" goes on until the last file has been counted.
after_count(i, n) == IF i = n THEN "Presenting" ELSE "Annotating"

\* One turn of "for f in files".
CountTokens ==
  /\ pc = "Annotating"
  /\ idx <= Len(files)
  /\ LET f == files[idx]
         relative_path == RelStr(f)
     IN token_counts' = (relative_path :> recorded_count(f)) @@ token_counts
  /\ idx' = idx + 1
  /\ pc' = after_count(idx, Len(files))
  /\ log' = Append(log, "count")
  /\ UNCHANGED << present, listErr, readErr, recursive, depth, filters,
                  ignore_patterns, non_interactive, files, tree, selected_files,
                  total_tokens, exit_code, walked, listed, offered, otherVars >>

\* tree = self.build_tree(): a second walk of the same file system.
BuildTree ==
  /\ pc = "Presenting"
  /\ \E ord \in Orders :
       LET w == walk_valid_paths(ord)
       IN /\ tree' = IF w.err THEN << >> ELSE build_directory_tree(w.out)
          /\ pc' = IF w.err THEN "Raised" ELSE "Selecting"
  /\ log' = Append(log, "tree")
  /\ UNCHANGED << present, listErr, readErr, recursive, depth, filters,
                  ignore_patterns, non_interactive, files, idx, token_counts,
                  selected_files, total_tokens, exit_code, walked, listed, offered, otherVars >>

\* (mutant) [f.name for f in files]
all_relative_names == [i \in 1..Len(files) |-> Name(files[i])]

\* [str(f.relative_to(self.directory)) for f in files]
all_relative == [i \in 1..Len(files) |-> RelStr(files[i])]

\* if non_interactive: every candidate, and the sum of all the counts.
SelectAll ==
  /\ pc = "Selecting"
  /\ non_interactive
  /\ selected_files' = all_relative
  /\ total_tokens' = sum_values
  /\ pc' = "Done"
  /\ log' = Append(log, "select_all")
  /\ UNCHANGED << present, listErr, readErr, recursive, depth, filters,
                  ignore_patterns, non_interactive, files, idx, token_counts,
                  tree, exit_code, walked, listed, offered, otherVars >>

\* else: inquirer.fuzzy(choices=..., filter=...).execute(); an empty result
\* raises typer.Exit(code=0).
Choose ==
  /\ pc = "Selecting"
  /\ ~non_interactive
  /\ LET cs == choices
     IN /\ offered' = cs
        /\ \E q \in ChooserResults(cs) :
             LET result == [i \in 1..Len(q) |-> extract_relative(cs[q[i]])]
             IN IF result = << >>
                  THEN /\ pc' = "NoSelection"
                       /\ exit_code' = << 0 >>
                       /\ UNCHANGED << selected_files, total_tokens >>
                  ELSE /\ pc' = "Done"
                       /\ selected_files' = result
                       /\ total_tokens' =
                            SumSeq([i \in 1..Len(result) |-> token_get(result[i])])
                       /\ UNCHANGED exit_code
  /\ log' = Append(log, "choose")
  /\ UNCHANGED << present, listErr, readErr, recursive, depth, filters,
                  ignore_patterns, non_interactive, files, idx, token_counts,
                  tree, walked, listed, otherVars >>

Next == Scan \/ CountTokens \/ BuildTree \/ SelectAll \/ Choose

Spec == Init /\ [][Next]_vars

\* -------------------------------------------------- the runs on flat trees

\* The traversal modes used on the flat trees.
FlatModes == { << TRUE, << >> >>, << FALSE, << >> >>, << FALSE, << 1 >> >> }

\* A FileBrowser over a flat tree; every listing and every read succeeds.
FlatInit ==
  /\ present \in FlatFileSystems
  /\ listErr = [d \in { Root } \cup (present \cap AllDirs) |-> "ok"]
  /\ readErr = {}
  /\ \E m \in FlatModes : recursive = m[1] /\ depth = m[2]
  /\ filters \in FilterChoices
  /\ ignore_patterns = << >>
  /\ non_interactive \in BOOLEAN
  /\ pc = "Scanning"
  /\ files = << >> /\ idx = 1 /\ token_counts = << >> /\ tree = << >>
  /\ selected_files = << >> /\ total_tokens = 0 /\ exit_code = << >>
  /\ walked = {} /\ listed = {} /\ offered = << >> /\ log = << >>
  /\ encoding_model = DefaultEncoding
  /\ TokIdle
  /\ TwiceIdle
  /\ CfgIdle
  /\ CliIdle
  /\ OutIdle

FlatSpec == FlatInit /\ [][Next]_vars

\* ------------------------------------------------------ count_tokens alone

\* No FileBrowser run is under way: its state stays as constructed over an
\* empty directory.
BrowserIdle ==
  /\ present = {} /\ listErr = [d \in { Root } |-> "ok"] /\ readErr = {}
  /\ recursive = FALSE /\ depth = << >> /\ filters = << >>
  /\ ignore_patterns = << >> /\ non_interactive = FALSE
  /\ files = << >> /\ idx = 1 /\ token_counts = << >> /\ tree = << >>
  /\ selected_files = << >> /\ total_tokens = 0 /\ exit_code = << >>
  /\ walked = {} /\ listed = {} /\ offered = << >> /\ log = << >>
  /\ encoding_model = DefaultEncoding

browserVars ==
  << present, listErr, readErr, recursive, depth, filters, ignore_patterns,
     non_interactive, files, idx, token_counts, tree, selected_files,
     total_tokens, exit_code, walked, listed, offered, log, encoding_model >>

\* The texts and encoding names count_tokens is called with.
TextChars == { "x", " ", "y" }

Texts == UNION { [1..n -> TextChars] : n \in 0..MaxTextLen }

EncodingNames == KnownEncodings \cup { "invalid_encoding", "" }

TokInit ==
  /\ BrowserIdle
  /\ pc = "Tokenizing"
  /\ text \in Texts
  /\ encoding_name \in EncodingNames
  /\ token_count = << >>
  /\ TwiceIdle
  /\ CfgIdle
  /\ CliIdle
  /\ OutIdle

\* token_count = count_tokens(text, encoding_name)
Tokenize ==
  /\ pc = "Tokenizing"
  /\ token_count' = << count_tokens(text, encoding_name) >>
  /\ pc' = "Tokenized"
  /\ UNCHANGED << browserVars, text, encoding_name, twiceVars, cfgVars, args, outVars >>

TokNext == Tokenize

TokSpec == TokInit /\ [][TokNext]_vars

\* ------------------------------------------- two traversals, one FileBrowser

\* One FileBrowser over a directory tree that does not change; every listing
\* succeeds.
TwiceInit ==
  /\ present \in FileSystems
  /\ listErr = [d \in { Root } \cup (present \cap UDirs) |-> "ok"]
  /\ readErr = {}
  /\ \E m \in ModeChoices : recursive = m[1] /\ depth = m[2]
  /\ filters \in FilterChoices
  /\ ignore_patterns \in IgnoreChoices
  /\ non_interactive = FALSE
  /\ pc = "FirstFiles"
  /\ files = << >> /\ idx = 1 /\ token_counts = << >> /\ tree = << >>
  /\ selected_files = << >> /\ total_tokens = 0 /\ exit_code = << >>
  /\ walked = {} /\ listed = {} /\ offered = << >> /\ log = << >>
  /\ encoding_model = DefaultEncoding
  /\ TokIdle
  /\ TwiceIdle
  /\ CfgIdle
  /\ CliIdle
  /\ OutIdle

\* files = browser.get_files(), the first time.
FirstGetFiles ==
  /\ pc = "FirstFiles"
  /\ \E ord \in Orders :
       LET w == walk_valid_paths(ord)
       IN /\ files' = get_files(w.out)
          /\ walked' = { w.out[i] : i \in 1..Len(w.out) }
          /\ listed' = w.listed
  /\ UNCHANGED << recursive, depth, filters, ignore_patterns >>
  /\ pc' = "FirstTree"
  /\ log' = Append(log, "get_files")
  /\ UNCHANGED << present, listErr, readErr, non_interactive, idx, token_counts,
                  tree, selected_files, total_tokens, exit_code, offered,
                  encoding_model, tokVars, twiceVars, cfgVars, args, outVars >>

\* tree = browser.build_tree(), the first time.
FirstBuildTree ==
  /\ pc = "FirstTree"
  /\ \E ord \in Orders : tree' = build_directory_tree(walk_valid_paths(ord).out)
  /\ UNCHANGED << recursive, depth, filters, ignore_patterns >>
  /\ pc' = "SecondFiles"
  /\ log' = Append(log, "build_tree")
  /\ UNCHANGED << present, listErr, readErr, non_interactive, files, idx,
                  token_counts, selected_files, total_tokens, exit_code, walked,
                  listed, offered, encoding_model, tokVars, twiceVars, cfgVars,
                  args, outVars >>

\* browser.get_files() again: the directory may be enumerated in another order.
SecondGetFiles ==
  /\ pc = "SecondFiles"
  /\ \E ord \in Orders : files2' = get_files(walk_valid_paths(ord).out)
  /\ UNCHANGED << recursive, depth, filters, ignore_patterns >>
  /\ pc' = "SecondTree"
  /\ log' = Append(log, "get_files")
  /\ UNCHANGED << present, listErr, readErr, non_interactive, files, idx,
                  token_counts, tree, selected_files, total_tokens, exit_code,
                  walked, listed, offered, encoding_model, tokVars, tree2,
                  cfgVars, args, outVars >>

\* browser.build_tree() again.
SecondBuildTree ==
  /\ pc = "SecondTree"
  /\ \E ord \in Orders : tree2' = build_directory_tree(walk_valid_paths(ord).out)
  /\ UNCHANGED << recursive, depth, filters, ignore_patterns >>
  /\ pc' = "Twice"
  /\ log' = Append(log, "build_tree")
  /\ UNCHANGED << present, listErr, readErr, non_interactive, files, idx,
                  token_counts, tree, selected_files, total_tokens, exit_code,
                  walked, listed, offered, encoding_model, tokVars, files2,
                  cfgVars, args, outVars >>

TwiceNext == FirstGetFiles \/ FirstBuildTree \/ SecondGetFiles \/ SecondBuildTree

TwiceSpec == TwiceInit /\ [][TwiceNext]_vars

\* ------------------------------------------------- ConfigManager on its own

ConfigInit ==
  /\ BrowserIdle
  /\ TokIdle
  /\ TwiceIdle
  /\ CliIdle
  /\ OutIdle
  /\ pc = "Config"
  /\ config_file \in ConfigFiles
  /\ environ \in Environments
  /\ config = EmptyDict
  /\ new_patterns = << >>
  /\ cm_calls = 0

\* config = config_manager.load_config()
LoadConfig ==
  /\ pc \in { "Config", "Loaded", "Added" }
  /\ cm_calls < MaxCalls
  /\ config' = load_config(config_file, environ)
  /\ pc' = "Loaded"
  /\ cm_calls' = cm_calls + 1
  /\ UNCHANGED << browserVars, tokVars, twiceVars, config_file, environ,
                  new_patterns, args, outVars >>

\* config_manager.add_ignore_patterns(new_patterns): a file that cannot be
\* parsed, or a write that fails, ends with typer.Exit(1); a failed write
\* leaves the file as it was, empty, or cut short.
AddIgnorePatterns ==
  /\ pc \in { "Config", "Loaded", "Added" }
  /\ cm_calls < MaxCalls
  /\ cm_calls' = cm_calls + 1
  /\ \E patterns \in PatternArgs :
       /\ new_patterns' = Append(new_patterns, patterns)
       /\ IF config_file.exists /\ ~config_file.valid
            THEN /\ pc' = "AddFailed"
                 /\ exit_code' = << 1 >>
                 /\ UNCHANGED config_file
            ELSE LET loaded == IF config_file.exists THEN config_file.doc
                               ELSE [cmdc |-> get_default_config]
                 IN \/ /\ config_file' = FileOf(add_ignore_patterns(loaded, patterns))
                       /\ pc' = "Added"
                       /\ UNCHANGED exit_code
                    \/ /\ config_file' \in { config_file, FileOf(EmptyDict), UnparsableFile }
                       /\ pc' = "AddFailed"
                       /\ exit_code' = << 1 >>
  /\ UNCHANGED << present, listErr, readErr, recursive, depth, filters,
                  ignore_patterns, non_interactive, files, idx, token_counts,
                  tree, selected_files, total_tokens, walked, listed, offered,
                  log, encoding_model, tokVars, twiceVars, environ, config,
                  args, outVars >>

ConfigNext == LoadConfig \/ AddIgnorePatterns

ConfigSpec == ConfigInit /\ [][ConfigNext]_vars

\* ----------------------------------------------------------------- cli.main

\* main over the full directory tree of the model: either with --config or
\* --config-show, or with the options that decide what is browsed.
CliInit ==
  /\ TokIdle
  /\ TwiceIdle
  /\ OutIdle
  /\ present = UDirs \cup UFiles
  /\ listErr = [d \in { Root } \cup UDirs |-> "ok"]
  /\ readErr = {}
  /\ recursive = FALSE /\ depth = None /\ filters = << >> /\ ignore_patterns = << >>
  /\ encoding_model = DefaultEncoding
  /\ pc = "Main"
  /\ files = << >> /\ idx = 1 /\ token_counts = << >> /\ tree = << >>
  /\ selected_files = << >> /\ total_tokens = 0 /\ exit_code = << >>
  /\ walked = {} /\ listed = {} /\ offered = << >> /\ log = << >>
  /\ config = EmptyDict /\ new_patterns = << >> /\ cm_calls = 0
  /\ \/ /\ \E c, s, f \in BOOLEAN :
             /\ c \/ s
             /\ args = [NoArgs EXCEPT !.config = c, !.config_show = s, !.force = f]
        /\ config_file \in CliConfigFiles \cup { UnparsableFile }
        /\ environ = NoEnv
        /\ non_interactive = FALSE
     \/ /\ \E r \in CliRecursive, d \in CliDepth, f \in CliFilters, i \in CliIgnore :
             args = [NoArgs EXCEPT !.recursive = r, !.depth = d, !.filters = f,
                                   !.ignore = i]
        /\ config_file \in CliConfigFiles
        /\ environ \in CliEnvironments
        /\ non_interactive \in BOOLEAN
     \/ /\ \E m \in CliEncodingModel :
             args = [NoArgs EXCEPT !.encoding_model = encoding_model_argument(m)]
        /\ config_file \in { NoFile, File_cl100k }
        /\ environ = NoEnv
        /\ non_interactive \in BOOLEAN

\* "if config: config_manager.handle_config(force); raise typer.Exit()".
\* handle_config asks before overwriting a file unless forced (a refusal is
\* typer.Exit()), runs interactive_config and saves {"cmdc": config_data};
\* a failed save is typer.Exit(1) and leaves the file as it was, empty, or
\* cut short.
ConfigFlag ==
  /\ pc = "Main"
  /\ args.config
  /\ pc' = "Exited"
  /\ \/ /\ config_file.exists /\ ~args.force
        /\ log' = Append(log, "handle_config")
        /\ exit_code' = << 0 >>
        /\ UNCHANGED config_file
     \/ \E a \in AnswerChoices :
          \/ /\ config_file' = FileOf([cmdc |-> interactive_config(a)])
             /\ log' = Append(log, "handle_config")
             /\ exit_code' = << 0 >>
          \/ /\ config_file' \in { config_file, FileOf(EmptyDict), UnparsableFile }
             /\ log' = log \o << "handle_config", "save_error" >>
             /\ exit_code' = << 1 >>
  /\ UNCHANGED << present, listErr, readErr, recursive, depth, filters,
                  ignore_patterns, non_interactive, files, idx, token_counts,
                  tree, selected_files, total_tokens, walked, listed, offered,
                  encoding_model, tokVars, twiceVars, environ, config,
                  new_patterns, cm_calls, args, outVars >>

\* "if config_show: config_manager.display_config(); raise typer.Exit()"
ConfigShowFlag ==
  /\ pc = "Main"
  /\ ~args.config
  /\ args.config_show
  /\ pc' = "Exited"
  /\ log' = Append(log, "display_config")
  /\ exit_code' = << 0 >>
  /\ UNCHANGED << present, listErr, readErr, recursive, depth, filters,
                  ignore_patterns, non_interactive, files, idx, token_counts,
                  tree, selected_files, total_tokens, walked, listed, offered,
                  encoding_model, tokVars, twiceVars, cfgVars, args, outVars >>

\* (mutant) the two "raise typer.Exit()" are missing.
runs_browser_always(a) == TRUE

\* main goes on to browse unless --config or --config-show made it exit.
runs_browser(a) == ~a.config /\ ~a.config_show

\* The layered configuration is loaded, the options are resolved against it
\* and the FileBrowser is constructed.
Browse ==
  /\ pc = "Main"
  /\ runs_browser(args)
  /\ LET loaded == load_config(config_file, environ)
         cfg == IF args.encoding_model # None
                  THEN Update(loaded, "tiktoken_model" :> args.encoding_model[1])
                  ELSE loaded
         mode == resolve_mode(args, cfg)
     IN /\ config' = cfg
        /\ filters' = resolve_filters(args, cfg)
        /\ ignore_patterns' = resolve_ignore(args, cfg)
        /\ recursive' = mode[1]
        /\ depth' = mode[2]
        /\ encoding_model' = Get(cfg, "tiktoken_model", "o200k_base")
  /\ pc' = "Scanning"
  /\ log' = Append(log, "load_config")
  /\ UNCHANGED << present, listErr, readErr, non_interactive, files, idx,
                  token_counts, tree, selected_files, total_tokens, exit_code,
                  walked, listed, offered, tokVars, twiceVars, config_file,
                  environ, new_patterns, cm_calls, args, outVars >>

\* OutputHandler(directory=..., copy_to_clipboard=..., print_to_console=...):
\* OutputHandler.__init__ takes directory and copy_to_clipboard only, so the
\* call raises TypeError and main ends there.
MakeOutputHandler ==
  /\ pc = "Done"
  /\ pc' = "TypeError"
  /\ log' = Append(log, "output_handler")
  /\ UNCHANGED << present, listErr, readErr, recursive, depth, filters,
                  ignore_patterns, non_interactive, files, idx, token_counts,
                  tree, selected_files, total_tokens, exit_code, walked, listed,
                  offered, otherVars >>

CliNext ==
  \/ ConfigFlag \/ ConfigShowFlag \/ Browse
  \/ Scan \/ CountTokens \/ BuildTree \/ SelectAll \/ Choose
  \/ MakeOutputHandler

CliSpec == CliInit /\ [][CliNext]_vars

\* ------------------------------------------- OutputHandler.process_output

\* An output file name.
M_out == << "o", "u", "t" >>

\* The output_mode arguments: the console, in two spellings, and a file.
OutputModes == { M_console, << "C" >> \o Tail(M_console), M_out }

\* output_mode.lower() == "console"
is_console(mode) == Lower(mode) = M_console

\* The lists of selected files handed to process_output.
OutSelections ==
  { q \in UNION { [1..n -> UFiles] : n \in 1..MaxOutSel } :
      \A i, j \in 1..Len(q) : i # j => q[i] # q[j] }

\* file_path.read_text(encoding="utf-8") returns instead of raising.
Readable(p) == p \in present /\ p \notin readErr

\* "\n<open_file>\n{path}\n<contents>\n{content}\n</contents>\n</open_file>\n"
open_file_block(p) == [kind |-> "open_file", path |-> p, contents |-> Content(p)]

\* "\nError reading {path}: {e}\n"
error_msg(p) == [kind |-> "error", path |-> p, contents |-> << >>]

\* (mutant) the except branch adds nothing to output_text.
read_error_text_dropped(mode, p) == << >>

\* What the except branch adds to output_text: the message, unless it went
\* to the console.
read_error_text(mode, p) == IF is_console(mode) THEN << >> ELSE << error_msg(p) >>

\* process_output(selected_files, output_mode) on an OutputHandler; any of the
\* selected files may be unreadable.
OutInit ==
  /\ TokIdle
  /\ TwiceIdle
  /\ CfgIdle
  /\ CliIdle
  /\ present = UDirs \cup UFiles
  /\ listErr = [d \in { Root } \cup UDirs |-> "ok"]
  /\ readErr \in SUBSET UFiles
  /\ recursive = FALSE /\ depth = << >> /\ filters = << >>
  /\ ignore_patterns = << >> /\ non_interactive = FALSE
  /\ files = << >> /\ idx = 1 /\ token_counts = << >> /\ tree = << >>
  /\ selected_files \in OutSelections
  /\ total_tokens = 0 /\ exit_code = << >>
  /\ walked = {} /\ listed = {} /\ offered = << >> /\ log = << >>
  /\ encoding_model = DefaultEncoding
  /\ pc = "Emitting"
  /\ output_mode \in OutputModes
  /\ copy_to_clipboard \in BOOLEAN
  /\ out_idx = 1
  /\ output_text = << >> /\ console_out = << >> /\ clipboard = << >>
  /\ output_file = << >>

\* One iteration of "for file_path_str in selected_files": the file's block is
\* added to output_text (and printed in console mode), or, when reading it
\* raises, the error message is printed or added.
EmitFile ==
  /\ pc = "Emitting"
  /\ out_idx <= Len(selected_files)
  /\ LET p == selected_files[out_idx]
     IN IF Readable(p)
          THEN /\ output_text' = Append(output_text, open_file_block(p))
               /\ console_out' = IF is_console(output_mode)
                                   THEN Append(console_out, open_file_block(p))
                                   ELSE console_out
          ELSE /\ output_text' = output_text \o read_error_text(output_mode, p)
               /\ console_out' = IF is_console(output_mode)
                                   THEN Append(console_out, error_msg(p))
                                   ELSE console_out
  /\ out_idx' = out_idx + 1
  /\ UNCHANGED << browserVars, pc, tokVars, twiceVars, cfgVars, args, output_mode,
                  copy_to_clipboard, clipboard, output_file >>

\* Console mode with copy_to_clipboard: pyperclip.copy(output_text); a failure
\* is reported and swallowed.
CopyToClipboard ==
  /\ pc = "Emitting"
  /\ out_idx > Len(selected_files)
  /\ is_console(output_mode)
  /\ copy_to_clipboard
  /\ clipboard' \in { clipboard, Some(output_text) }
  /\ pc' = "Returned"
  /\ UNCHANGED << browserVars, tokVars, twiceVars, cfgVars, args, output_mode,
                  copy_to_clipboard, out_idx, output_text, console_out, output_file >>

\* Console mode without copy_to_clipboard: nothing is left to do.
ReturnFromConsole ==
  /\ pc = "Emitting"
  /\ out_idx > Len(selected_files)
  /\ is_console(output_mode)
  /\ ~copy_to_clipboard
  /\ pc' = "Returned"
  /\ UNCHANGED << browserVars, tokVars, twiceVars, cfgVars, args, outVars >>

\* File mode: Path(output_mode).write_text(output_text); a failure is
\* typer.Exit(code=1).
WriteOutputFile ==
  /\ pc = "Emitting"
  /\ out_idx > Len(selected_files)
  /\ ~is_console(output_mode)
  /\ \/ /\ output_file' = Some(output_text)
        /\ pc' = "Returned"
        /\ UNCHANGED exit_code
     \/ /\ output_file' = << >>
        /\ pc' = "Exited"
        /\ exit_code' = << 1 >>
  /\ UNCHANGED << present, listErr, readErr, recursive, depth, filters,
                  ignore_patterns, non_interactive, files, idx, token_counts,
                  tree, selected_files, total_tokens, walked, listed, offered,
                  log, encoding_model, tokVars, twiceVars, cfgVars, args,
                  output_mode, copy_to_clipboard, out_idx, output_text,
                  console_out, clipboard >>

OutNext == EmitFile \/ CopyToClipboard \/ ReturnFromConsole \/ WriteOutputFile

OutSpec == OutInit /\ [][OutNext]_vars

\* ============================================================== properties


\* Some segment of the absolute path (the entry's own name, or the name of an
\* ancestor directory) matches some ignore pattern.
SegmentMatches(p, patterns) ==
  \E part \in Range(AbsParts(p)) : \E pat \in Range(patterns) : fnmatch(part, pat)

PathsWithIgnoredSegment ==
  [patterns \in IgnoreLists |->
    { p \in { Root } \cup AllDirs \cup AllFiles : SegmentMatches(p, patterns) }]

HasIgnoredSegment(p) == p \in PathsWithIgnoredSegment[ignore_patterns]

\* The traversal mode reaches the depth of p (the root's children are at 1).
WithinDepth(p) ==
  \/ recursive
  \/ ~recursive /\ depth = << >> /\ Len(p) = 1
  \/ ~recursive /\ depth # << >> /\ Len(p) <= depth[1]

\* Every directory above p, the root included, can be listed.
AncestorsListable(p) == \A k \in 0..(Len(p) - 1) : listErr[SubSeq(p, 1, k)] = "ok"

\* The last suffix of the name with its leading dot; none when the only dot
\* is the first or the last character.
Extension(p) ==
  LET n == Name(p)
      dots == { i \in 2..(Len(n) - 1) : n[i] = "." }
  IN IF dots = {} THEN << >>
     ELSE SubSeq(n, CHOOSE i \in dots : \A j \in dots : j <= i, Len(n))

PassesFilter(p) == filters = << >> \/ Extension(p) \in Range(filters)

\* The paths of the nodes below the root of a display tree.
RECURSIVE NodePaths(_, _)
NodePaths(children, prefix) ==
  UNION { { prefix \o << children[i].name >> }
            \cup NodePaths(children[i].children, prefix \o << children[i].name >>)
          : i \in 1..Len(children) }

TreePaths == IF tree = << >> THEN {} ELSE NodePaths(tree.children, Root)

ScanReturned == pc \notin { "Scanning", "Raised" }

\* C1: an entry with a path segment (its own name or an ancestor's) matching an
\* ignore pattern is never yielded by the walk, never returned by get_files,
\* never a node of the display tree and never offered to the chooser, in
\* every traversal mode.
C1_IgnoredNeverSurfaces ==
  \A p \in present :
    HasIgnoredSegment(p) =>
      /\ p \notin walked
      /\ p \notin Range(files)
      /\ p \notin TreePaths
      /\ RelStr(p) \notin Range(offered)

\* An ignored file lies where the traversal mode reaches and would pass the
\* filter, and the run has walked, built the tree and offered its choices.
C1_Witness ==
  /\ pc = "Done"
  /\ offered # << >>
  /\ TreePaths # {}
  /\ \E p \in present \cap UFiles :
       /\ HasIgnoredSegment(p) /\ HasIgnoredSegment(Parent(p))
       /\ WithinDepth(p) /\ AncestorsListable(p) /\ PassesFilter(p)

\* C2: get_files returns exactly the files the traversal mode reaches that
\* are not ignored and pass the filter, each once: every such file when the
\* filter list is empty, those whose extension is an entry of the list
\* otherwise; never a directory.
C2_ExactCandidates ==
  ScanReturned =>
    /\ Range(files) =
         { p \in present \cap UFiles :
             /\ WithinDepth(p) /\ AncestorsListable(p)
             /\ ~HasIgnoredSegment(p)
             /\ PassesFilter(p) }
    /\ Cardinality(Range(files)) = Len(files)
    /\ Range(files) \cap UDirs = {}

\* A non-empty filter keeps one reachable file and drops another.
C2_Witness ==
  /\ pc = "Annotating"
  /\ filters # << >>
  /\ \E p, q \in present \cap UFiles :
       /\ p \in Range(files)
       /\ q \notin Range(files)
       /\ WithinDepth(q) /\ AncestorsListable(q) /\ ~HasIgnoredSegment(q)

\* C3: with depth n >= 1 and recursive off, the walk yields exactly the
\* non-ignored entries at depths 1..n (below directories that can be listed)
\* and nothing deeper, so a file at depth k is a candidate only when k <= n.
C3_DepthLimited ==
  (ScanReturned /\ ~recursive /\ depth # << >> /\ depth[1] >= 1) =>
    /\ walked = { p \in present :
                    Len(p) <= depth[1] /\ ~HasIgnoredSegment(p) /\ AncestorsListable(p) }
    /\ \A p \in walked \cup Range(files) : Len(p) >= 1 /\ Len(p) <= depth[1]

\* Depth 2 over a tree with a file at depth 3: the depth-2 directory is
\* yielded, its file is not; the root's own file is a candidate.
C3_Witness ==
  /\ pc = "Annotating"
  /\ ~recursive /\ depth = << 2 >>
  /\ ignore_patterns = << >>
  /\ << N_sub, N_deep, N_a >> \in present
  /\ << N_sub, N_deep >> \in walked
  /\ << N_sub, N_deep, N_a >> \notin walked
  /\ << N_a >> \in Range(files)

\* The sum, over a sequence of relative paths, of the counts recorded for them.
RECURSIVE CountsOver(_)
CountsOver(q) ==
  IF q = << >> THEN 0
  ELSE (IF Head(q) \in DOMAIN token_counts THEN token_counts[Head(q)] ELSE 0)
         + CountsOver(Tail(q))

\* C4: whenever a result is returned (all candidates in non-interactive mode,
\* or whatever sequence the chooser returned), total_tokens is the sum over
\* exactly the returned paths of the counts recorded for them during annotation.
C4_TokenSum == pc = "Done" => total_tokens = CountsOver(selected_files)

\* The chooser returned a single path out of at least three candidates, and
\* its count is not zero.
C4_Witness ==
  /\ pc = "Done"
  /\ ~non_interactive
  /\ Len(selected_files) = 1
  /\ Len(files) >= 3
  /\ total_tokens > 0

\* The relative paths of the candidates get_files returned.
CandidatePaths == { RelStr(f) : f \in Range(files) }

\* C5: in non-interactive mode the returned selection is exactly the relative
\* paths of all candidates, none missing, added or repeated, and the chooser
\* is never invoked (so the run never ends with NoSelection).
C5_SelectAllExact ==
  /\ non_interactive => pc # "NoSelection" /\ offered = << >> /\ "choose" \notin Range(log)
  /\ (pc = "Done" /\ non_interactive) =>
       /\ Range(selected_files) = CandidatePaths
       /\ Len(selected_files) = Len(files)
       /\ Cardinality(Range(selected_files)) = Len(selected_files)

\* A non-interactive run returned at least three candidates, two of them with
\* the same file name in different directories.
C5_Witness ==
  /\ pc = "Done"
  /\ non_interactive
  /\ Len(selected_files) >= 3
  /\ \E f, g \in Range(files) : f # g /\ Name(f) = Name(g)

\* Consecutive elements of q are in the order Leq.
Ordered(q, Leq(_, _)) == \A i \in 1..(Len(q) - 1) : Leq(q[i], q[i + 1])

StrLeqNoCase(s1, s2) == StrLeq(Lower(s1), Lower(s2))

\* C6 as stated: in non-interactive mode the returned paths are in
\* lexicographic order of the relative path (read with or without case).
C6_LexicographicByRelativePath ==
  (pc = "Done" /\ non_interactive) =>
    Ordered(selected_files, StrLeq) \/ Ordered(selected_files, StrLeqNoCase)

\* What follows the last "/" of a relative path.
BaseName(s) ==
  LET slashes == { i \in 1..Len(s) : s[i] = "/" }
  IN IF slashes = {} THEN s
     ELSE SubSeq(s, (CHOOSE i \in slashes : \A j \in slashes : j <= i) + 1, Len(s))

BaseNameLeq(s1, s2) == StrLeq(Lower(BaseName(s1)), Lower(BaseName(s2)))

\* C6 (amended): in non-interactive mode the returned paths are in get_files
\* order, that is ordered by the lower-cased file name (the last component
\* of the relative path), not by the relative path as a whole.
C6_OrderedByFileName ==
  (pc = "Done" /\ non_interactive) => Ordered(selected_files, BaseNameLeq)

\* A non-interactive selection whose file-name order is not relative-path order.
C6_Witness ==
  /\ pc = "Done"
  /\ non_interactive
  /\ Len(selected_files) >= 3
  /\ ~Ordered(selected_files, StrLeq)
  /\ ~Ordered(selected_files, StrLeqNoCase)

LowerNameLeq(f, g) == StrLeq(Lower(Name(f)), Lower(Name(g)))

\* C7: get_files returns its list ordered by lower-cased file name, whatever
\* order the directories were enumerated in.
C7_SortedCaseInsensitive == ScanReturned => Ordered(files, LowerNameLeq)

\* Candidates whose case-sensitive order differs from the case-insensitive one.
C7_Witness ==
  /\ pc = "Annotating"
  /\ Len(files) >= 3
  /\ << N_sub, N_B >> \in Range(files)
  /\ << N_a >> \in Range(files)

\* C8: no candidate ends the run with NoFilesFound and exit code 1 before any
\* count, tree or chooser call; candidates with an empty selection end it
\* with NoSelection and exit code 0; neither returns a result, and a returned
\* result carries no exit code.
C8_EmptyOutcomes ==
  /\ (ScanReturned /\ files = << >>) => pc = "NoFilesFound"
  /\ pc = "NoFilesFound" =>
       /\ files = << >> /\ exit_code = << 1 >>
       /\ DOMAIN token_counts = {} /\ tree = << >> /\ offered = << >>
       /\ log = << "scan" >>
       /\ selected_files = << >>
  /\ pc = "NoSelection" =>
       /\ files # << >> /\ exit_code = << 0 >>
       /\ ~non_interactive /\ log[Len(log)] = "choose"
       /\ selected_files = << >>
  /\ pc = "Done" => selected_files # << >> /\ exit_code = << >>
  /\ exit_code # << >> => pc \in { "NoFilesFound", "NoSelection" }

\* Candidates were found, counted and offered, and the chooser returned nothing.
C8_Witness ==
  /\ pc = "NoSelection"
  /\ Len(files) >= 2
  /\ offered # << >>

\* p lies beneath the directory d.
Beneath(d, p) == Len(p) > Len(d) /\ SubSeq(p, 1, Len(d)) = d

Listable(p) == p \in UFiles \/ listErr[p] = "ok"

\* C9 as stated: a directory that cannot be listed is skipped silently in
\* every mode: no error leaves the walk, nothing beneath it is yielded, and
\* every readable non-ignored entry within the depth limit that is not
\* beneath an unlistable directory is still yielded.
C9_UnlistableSkipped ==
  /\ pc # "Raised"
  /\ ScanReturned =>
       /\ \A d \in DOMAIN listErr : \A p \in walked :
            listErr[d] # "ok" => ~Beneath(d, p)
       /\ \A p \in present :
            (WithinDepth(p) /\ AncestorsListable(p) /\ Listable(p)
               /\ ~HasIgnoredSegment(p))
              => p \in walked

\* The part of C9 the code keeps: the same, for listings that fail with
\* PermissionError (and, in the os.walk branch, with any OSError).
C9_PermissionDeniedSkipped ==
  (recursive \/ \A d \in DOMAIN listErr : listErr[d] # "os") => C9_UnlistableSkipped

\* A listing failed with PermissionError below a root that has other entries,
\* and the depth-limited walk went on.
C9_PermissionWitness ==
  /\ pc = "Annotating"
  /\ ~recursive /\ depth = << 2 >>
  /\ << N_sub >> \in DOMAIN listErr
  /\ listErr[<< N_sub >>] = "perm"
  /\ << N_git, N_c >> \in walked

\* C10: the counting loop never aborts: after it the map has exactly one
\* entry per candidate, 0 for a candidate whose read or tokenization raised,
\* and for every other candidate the count of its content.
C10_AnnotationComplete ==
  /\ pc = "Annotating" =>
       DOMAIN token_counts = { RelStr(files[i]) : i \in 1..(idx - 1) }
  /\ pc \in { "Presenting", "Selecting", "Done", "NoSelection" } =>
       /\ DOMAIN token_counts = CandidatePaths
       /\ \A f \in Range(files) :
            token_counts[RelStr(f)] =
              IF f \in readErr THEN 0 ELSE count_tokens(Content(f), encoding_model)
  /\ pc = "Raised" => log = << "scan" >>

\* A candidate that is not the first failed, and another one has a count.
C10_Witness ==
  /\ pc = "Presenting"
  /\ \E i \in 2..Len(files) :
       /\ files[i] \in readErr
       /\ token_counts[RelStr(files[i - 1])] > 0

\* C11: count_tokens does not fail on an encoding name the tokenizer does not
\* know: it counts with the default encoding, so the count is positive for a
\* non-empty text and 0 for the empty text, whatever the name.
C11_TokenizerFallback ==
  pc = "Tokenized" =>
    /\ Len(token_count) = 1
    /\ text = << >> => token_count[1] = 0
    /\ text # << >> => token_count[1] > 0
    /\ encoding_name \notin KnownEncodings =>
         token_count[1] = EncodedLen(text, DefaultEncoding)

\* A non-empty text was counted under a name the tokenizer does not know.
C11_Witness ==
  /\ pc = "Tokenized"
  /\ encoding_name = "invalid_encoding"
  /\ Len(text) = MaxTextLen
  /\ token_count = << MaxTextLen >>

\* C12: two traversals by the same FileBrowser over an unchanged directory
\* tree give the same candidate set and trees of the same shape (same labels,
\* same children in the same order), whatever order each walk enumerated the
\* directories in.
C12_Idempotent ==
  pc = "Twice" =>
    /\ Range(files) = Range(files2)
    /\ Len(files) = Len(files2)
    /\ tree = tree2

\* Both traversals found candidates and directories, and the two candidate
\* lists differ in order only.
C12_Witness ==
  /\ pc = "Twice"
  /\ Len(files) >= 3
  /\ files # files2
  /\ Len(tree.children) >= 3

\* The CMDC_* variable that stands for a configuration key.
EnvVarOf(k) ==
  CASE k = "filters" -> "CMDC_FILTERS"
    [] k = "ignore_patterns" -> "CMDC_IGNORE"
    [] k = "recursive" -> "CMDC_RECURSIVE"
    [] k = "copy_to_clipboard" -> "CMDC_COPY_CLIPBOARD"
    [] OTHER -> "none"

EnvSet(k) == EnvVarOf(k) \in EnvNames /\ environ[EnvVarOf(k)] # << >>

\* What the variable's text stands for: a comma-separated list, or a flag
\* that is true for "true" in any case.
EnvValue(k) ==
  IF k \in { "filters", "ignore_patterns" } THEN SplitComma(environ[EnvVarOf(k)])
  ELSE Lower(environ[EnvVarOf(k)]) = S_true

\* The "cmdc" table of the configuration file; empty without a readable file.
FileTable ==
  IF config_file.exists /\ config_file.valid /\ "cmdc" \in DOMAIN config_file.doc
    THEN config_file.doc["cmdc"] ELSE EmptyDict

\* C17: load_config gives, for every key, the environment's value if its
\* CMDC_* variable is set and not empty, else the file's value if the "cmdc"
\* table has the key, else the default; with neither file nor environment
\* the result is the defaults.
C17_LayeredMerge ==
  pc = "Loaded" =>
    /\ DOMAIN config = DOMAIN get_default_config \cup DOMAIN FileTable
    /\ \A k \in DOMAIN config :
         config[k] = IF EnvSet(k) THEN EnvValue(k)
                     ELSE IF k \in DOMAIN FileTable THEN FileTable[k]
                     ELSE get_default_config[k]
    /\ (~config_file.exists /\ environ = NoEnv) => config = get_default_config

\* The file and the environment both set a key, and the file sets another.
C17_Witness ==
  /\ pc = "Loaded"
  /\ config_file = File_lists
  /\ environ["CMDC_FILTERS"] # << >>
  /\ config.filters = << S_py, S_dot_txt >>
  /\ config.copy_to_clipboard = FALSE
  /\ config.depth = 1

\* The ignore list a configuration file holds; the defaults when it holds none.
ListInEffect(file) ==
  IF file.exists /\ file.valid /\ "cmdc" \in DOMAIN file.doc
       /\ "ignore_patterns" \in DOMAIN file.doc["cmdc"]
    THEN file.doc["cmdc"]["ignore_patterns"]
    ELSE get_default_ignore_patterns

\* C18: a successful add_ignore_patterns(P) saves a list that holds every
\* pattern of P and every pattern in effect before, without repeats, and
\* changes no other saved key; repeated with the same P it saves the same list.
C18_AddIgnorePatterns ==
  [][ pc' = "Added" =>
        LET saved == config_file'.doc["cmdc"]["ignore_patterns"]
            old_doc == config_file.doc
        IN /\ config_file'.exists /\ config_file'.valid
           /\ Range(new_patterns'[Len(new_patterns')]) \subseteq Range(saved)
           /\ Range(ListInEffect(config_file)) \subseteq Range(saved)
           /\ Cardinality(Range(saved)) = Len(saved)
           /\ \A t \in DOMAIN old_doc \ { "cmdc" } : config_file'.doc[t] = old_doc[t]
           /\ "cmdc" \in DOMAIN old_doc =>
                \A k \in DOMAIN old_doc["cmdc"] \ { "ignore_patterns" } :
                   config_file'.doc["cmdc"][k] = old_doc["cmdc"][k]
           /\ (Len(new_patterns') >= 2
                 /\ new_patterns'[Len(new_patterns')] = new_patterns[Len(new_patterns)]) =>
                saved = ListInEffect(config_file)
    ]_vars

\* Two calls with the same patterns succeeded on a file that had a table
\* without a list; the saved list has the defaults and the new patterns.
C18_Witness ==
  /\ pc = "Added"
  /\ cm_calls = 2
  /\ new_patterns = << << N_sub, N_git >>, << N_sub, N_git >> >>
  /\ config_file.exists /\ config_file.valid
  /\ DOMAIN config_file.doc = { "cmdc", "other" }
  /\ "depth" \in DOMAIN config_file.doc["cmdc"]
  /\ config_file.doc["cmdc"]["depth"] = 2
  /\ Len(config_file.doc["cmdc"]["ignore_patterns"]) = 20

\* main has resolved its options and constructed the FileBrowser.
Browsed == pc \notin { "Main", "Exited" }

\* C13: an explicit --recursive gives a fully recursive browser without a
\* depth, whatever --depth and the configured depth are; with neither option
\* the mode is the configuration's: recursive, or depth-limited with the
\* configured depth (1 unless the file sets it).
C13_RecursiveFlagWins ==
  Browsed =>
    /\ args.recursive = Some(TRUE) => recursive /\ depth = None
    /\ (args.recursive = None /\ args.depth = None) =>
         IF config.recursive THEN recursive /\ depth = None
         ELSE ~recursive /\ depth = Some(config.depth)
    /\ (args.recursive = None /\ args.depth = None /\ ~config.recursive
          /\ "depth" \notin DOMAIN FileTable) => depth = Some(1)
    /\ (recursive /\ pc # "Scanning") =>
         \A p \in present : ~HasIgnoredSegment(p) => p \in walked

\* --recursive and --depth 1 were both given; the walk went to the bottom.
C13_Witness ==
  /\ Browsed
  /\ args.recursive = Some(TRUE)
  /\ args.depth = Some(1)
  /\ << N_sub, N_deep, N_a >> \in Range(files)

RootChildren == { p \in present : Len(p) = 1 /\ ~HasIgnoredSegment(p) }

\* C15 as stated: whenever the browser runs depth-limited its depth is at
\* least 1, so the root's children are visited.
C15_DepthAtLeastOne ==
  (Browsed /\ ~recursive /\ depth # None) =>
    /\ depth[1] >= 1
    /\ pc # "Scanning" => RootChildren \subseteq walked

\* C16 as stated: every filter handed to the matcher starts with ".".
C16_FiltersNormalized ==
  Browsed => \A i \in 1..Len(filters) : filters[i] # << >> /\ filters[i][1] = "."

\* C20 as stated: with --config or --config-show main only delegates to
\* handle_config or display_config and exits with code 0; it never loads the
\* layered configuration, scans, asks for a selection or produces output.
C20_ConfigFlagsExitZero ==
  (args.config \/ args.config_show) =>
    /\ pc \in { "Main", "Exited" }
    /\ Range(log) \subseteq { "handle_config", "display_config" }
    /\ pc = "Exited" => exit_code = << 0 >>

\* C20 (amended): the same, except that the exit code is 1 when handle_config
\* could not save the configuration file.
C20_ConfigFlagsNeverBrowse ==
  (args.config \/ args.config_show) =>
    /\ pc \in { "Main", "Exited" }
    /\ Range(log) \subseteq { "handle_config", "display_config", "save_error" }
    /\ pc = "Exited" =>
         /\ Len(log) >= 1
         /\ log[1] = IF args.config THEN "handle_config" ELSE "display_config"
         /\ exit_code = IF "save_error" \in Range(log) THEN << 1 >> ELSE << 0 >>
    /\ config = EmptyDict /\ walked = {} /\ files = << >> /\ offered = << >>
    /\ selected_files = << >>

\* --config saved the answers and main exited with code 0.
C20_Witness ==
  /\ pc = "Exited"
  /\ args.config
  /\ exit_code = << 0 >>
  /\ config_file = FileOf([cmdc |-> interactive_config(Answers_not_a_number)])

\* What the selection should leave in the output file: for each selected file,
\* in selection order, its block, or the error message when it cannot be read.
ExpectedFileText ==
  [i \in 1..Len(selected_files) |->
     IF Readable(selected_files[i]) THEN open_file_block(selected_files[i])
     ELSE error_msg(selected_files[i])]

\* The <open_file> blocks among the pieces of a text.
Blocks(q) == LET IsBlock(x) == x.kind = "open_file" IN SelectSeq(q, IsBlock)

\* C19: process_output goes through the whole selection even when files
\* cannot be read: the blocks of all readable files are emitted in selection
\* order, and in file mode the written file holds, at each unreadable file's
\* position, its "Error reading" message.
C19_ReadErrorsDoNotAbort ==
  /\ pc \in { "Returned", "Exited" } =>
       /\ out_idx = Len(selected_files) + 1
       /\ Blocks(output_text) = Blocks(ExpectedFileText)
  /\ pc = "Exited" => ~is_console(output_mode) /\ output_file = << >>
  /\ (pc = "Returned" /\ is_console(output_mode)) =>
       Blocks(console_out) = Blocks(ExpectedFileText)
  /\ (pc = "Returned" /\ ~is_console(output_mode)) =>
       output_file = Some(ExpectedFileText)

\* a.py could not be read, sub/B.txt could; the file was written.
C19_Witness ==
  /\ pc = "Returned"
  /\ output_mode = M_out
  /\ selected_files = << << N_a >>, << N_sub, N_B >> >>
  /\ readErr = { << N_a >> }
  /\ output_file = Some(<< error_msg(<< N_a >>), open_file_block(<< N_sub, N_B >>) >>)

\* C21 as stated: in every traversal mode the walk lists no directory that
\* should_ignore holds for, the root included; below an ignored root nothing
\* is listed.
C21_IgnoredNeverListed ==
  /\ \A d \in listed : ~should_ignore(d)
  /\ should_ignore(Root) => listed = {}

\* The part of C21 the code keeps: when the root is not ignored, no ignored
\* directory is listed, in every traversal mode.
C21_IgnoredBelowRootNeverListed ==
  ~should_ignore(Root) => \A d \in listed : ~should_ignore(d)

\* Some file beneath the directory d survives the ignore rules and the filter.
HasSurvivingFile(d) ==
  \E f \in present \cap UFiles :
    Beneath(d, f) /\ ~HasIgnoredSegment(f) /\ PassesFilter(f)

\* C22 as stated: in the tree built in fully recursive or depth-limited mode
\* every directory node has a surviving file somewhere beneath it.
C22_NoEmptyDirectoryNodes ==
  (tree # << >> /\ (recursive \/ depth # << >>)) =>
    \A d \in TreePaths \cap UDirs : HasSurvivingFile(d)

\* The children of one node: directories before files, and within each kind
\* strictly ascending by lower-cased name.
ChildrenOrdered(ch) ==
  \A i, j \in 1..Len(ch) :
    i < j =>
      /\ ch[i].style = "file" => ch[j].style = "file"
      /\ ch[i].style = ch[j].style =>
           /\ StrLeq(Lower(ch[i].name), Lower(ch[j].name))
           /\ Lower(ch[i].name) # Lower(ch[j].name)

RECURSIVE TreeOrdered(_)
TreeOrdered(node) ==
  /\ ChildrenOrdered(node.children)
  /\ \A i \in 1..Len(node.children) : TreeOrdered(node.children[i])

LinearLog ==
  \A i \in 1..Len(log) :
    /\ log[i] = "scan" <=> i = 1
    /\ log[i] = "count" => i <= Len(files) + 1
    /\ log[i] = "tree" <=> i = Len(files) + 2
    /\ log[i] \in { "select_all", "choose" } <=> i = Len(files) + 3

\* A step of tree building or selection leaves token_counts as it is.
CountsKept == pc \in { "Presenting", "Selecting" } => token_counts' = token_counts

\* C24: the steps come in the order scan, annotation of every candidate, tree,
\* selection, each once; the chooser and the tree builder run only when every
\* candidate has its count; tree building and selection leave the counts as
\* annotation recorded them.
C24_LinearSelector ==
  /\ [](/\ LinearLog
        /\ (tree # << >> \/ offered # << >> \/ pc \in { "Selecting", "Done", "NoSelection" }) =>
             /\ files # << >>
             /\ DOMAIN token_counts = { RelStr(f) : f \in Range(files) }
        /\ (offered # << >> \/ pc \in { "Done", "NoSelection" }) => tree # << >>)
  /\ [][CountsKept]_vars

\* An interactive run over two candidates went through all its steps.
C24_Witness ==
  /\ pc = "Done"
  /\ ~non_interactive
  /\ log = << "scan", "count", "count", "tree", "choose" >>
  /\ offered # << >>

\* C28 as stated: every path an interactive run returns is one of the paths
\* offered to the chooser, a key of token_counts, also when a relative path
\* holds " [".
C28_SelectionWasOffered ==
  (pc = "Done" /\ ~non_interactive) =>
    \A i \in 1..Len(selected_files) :
      /\ selected_files[i] \in Range(offered)
      /\ selected_files[i] \in DOMAIN token_counts

\* The part of C28 the code keeps: the same for the paths without " [".
C28_SelectionWasOfferedWithoutBracket ==
  (pc = "Done" /\ ~non_interactive
     /\ \A k \in DOMAIN token_counts : extract_relative(k) = k) =>
    \A i \in 1..Len(selected_files) :
      /\ selected_files[i] \in Range(offered)
      /\ selected_files[i] \in DOMAIN token_counts

\* C25 as stated: the selection returned never holds the same relative path
\* twice, in non-interactive mode and for every selection of distinct choices
\* the chooser hands back.
C25_NoDuplicates ==
  pc = "Done" =>
    \A i, j \in 1..Len(selected_files) :
      i # j => selected_files[i] # selected_files[j]

\* The part of C25 the code keeps: no path twice in non-interactive mode.
C25_NoDuplicatesNonInteractive ==
  (pc = "Done" /\ non_interactive) =>
    \A i, j \in 1..Len(selected_files) :
      i # j => selected_files[i] # selected_files[j]

\* The height of the directory tree: the depth of its deepest entry.
Height ==
  IF present = {} THEN 0
  ELSE CHOOSE n \in { Len(p) : p \in present } : \A p \in present : Len(p) <= n

NoFaults == readErr = {} /\ \A d \in DOMAIN listErr : listErr[d] = "ok"

\* get_files has just returned.
JustScanned == ScanReturned /\ log = << "scan" >>

\* C26: on a tree whose directories can all be listed, get_files with a depth
\* limit of at least the tree's height found the same candidates as the fully
\* recursive walk finds, whatever the filters and ignore patterns are.
C26_DeepEnoughIsRecursive ==
  (JustScanned /\ NoFaults /\ ~recursive /\ depth # << >> /\ depth[1] >= Height) =>
    \A ord \in Orders :
      Range(files) = Range(get_files(recursive_walk(Root, ord).out))

\* Depth 3 on the full tree: the file at depth 3 is a candidate.
C26_Witness ==
  /\ ScanReturned
  /\ NoFaults
  /\ present = UDirs \cup UFiles
  /\ depth = << 3 >>
  /\ << N_sub, N_deep, N_a >> \in Range(files)
  /\ << N_sub, N_B >> \in Range(files)

\* C27 as stated: the sequence get_files returned is the one it returns under
\* every enumeration order of the same tree, also when two candidates in
\* different directories share their lower-cased file name.
C27_SequenceIndependentOfEnumeration ==
  (ScanReturned /\ NoFaults) =>
    \A ord \in Orders : get_files(walk_valid_paths(ord).out) = files

\* C29 as stated: without --encoding-model the FileBrowser gets the
\* tiktoken_model of the layered configuration (the file's value, else
\* "o200k_base"); with the option it gets the option's value.
C29_ConfiguredModelUsed ==
  Browsed =>
    encoding_model =
      IF args.encoding_model = encoding_model_argument(None)
        THEN Get(load_config(config_file, environ), "tiktoken_model", "o200k_base")
        ELSE args.encoding_model[1]

\* C30: the non-recursive walk and the depth-limited walk with depth 1 yield
\* the same set: the root's immediate children, files and directories, that
\* no ignore pattern excludes, and nothing deeper.
C30_FlatIsDepthOne ==
  /\ (ScanReturned /\ ~recursive /\ depth \in { << >>, << 1 >> }) =>
       walked = IF listErr[Root] = "ok" THEN RootChildren ELSE {}
  /\ (JustScanned /\ ~recursive /\ depth = << 1 >>) =>
       \A ord \in Orders : Range(flat_walk(ord).out) = walked

\* The non-recursive walk of the full tree yielded a.py, sub and .git.
C30_Witness ==
  /\ ScanReturned
  /\ ~recursive
  /\ depth = << >>
  /\ present = UDirs \cup UFiles
  /\ walked = { << N_a >>, << N_sub >>, << N_git >> }

====
